---- MODULE Spec2Model ----
(***************************************************************************)
(* A model of package startstop (src/startstop.go): Start and Stop order   *)
(* the objects of an inject graph by the number of eligible objects each   *)
(* one reaches, after rejecting graphs with a cycle through more than one  *)
(* eligible object.                                                        *)
(*                                                                         *)
(* A node is named by its position in the objects slice handed to Start    *)
(* and Stop, so objects is always <<1, .., n>>; every order of a graph's   *)
(* nodes in the slice is covered by the isomorphic graph.  As in the       *)
(* tests' Objects() (o.Fields[depName] = dep), a field is named after the  *)
(* object it points to, so Fields[n] is the set of objects n points to.    *)
(* Go ranges over the Fields map in an unspecified order: every range over *)
(* a map picks an arbitrary permutation of its keys.                       *)
(***************************************************************************)
EXTENDS Naturals, Sequences, FiniteSets

\* Bound: the largest number of fields (outgoing edges) of one object.
MaxFields == 2

\* The objects of the general graphs and of the wider, two-eligible graphs.
Nodes3 == {1, 2, 3}
Nodes4 == {1, 2, 3, 4}

VARIABLES
  objects,    \* the objects argument of Start and Stop: <<1, .., n>>
  Fields,     \* inject.Object.Fields of every object: the objects it points to
  kind,       \* what o.Value implements: "both", "start", "stop" or "none"
  log,        \* whether the log argument is non-nil
  op,         \* the running or last call: "none", "Start", "Stop"
  pc,         \* position of that call: "idle", "levels", "loop", "done"
  i,          \* levels: index into objects of the loop at line 90
  levelsMap,  \* levels: the map from startStopDeps to the objects appended
  lvls,       \* the slice of levels that levels returned
  todo,       \* Start/Stop: the objects the two nested loops have yet to visit
  startCalls, \* the Start methods called, in order, with their outcome
  stopCalls,  \* the Stop methods called, in order, with their outcome
  startRes,   \* what Start returned ("none" while it has not)
  stopRes,    \* what Stop returned ("none" while it has not)
  events,     \* what the Logger received, in order
  trace,      \* history: the Logger messages and the Start/Stop calls made, in program order
  twin,       \* history: the inputs and the outcome of a first pair of calls that is repeated
  walk        \* history: the last call of allPaths by levels: its root, deps and the objects it ranged over

vars == <<objects, Fields, kind, log, op, pc, i, levelsMap, lvls, todo,
          startCalls, stopCalls, startRes, stopRes, events, trace, twin, walk>>

graph == <<objects, Fields, kind, log>>

Kinds == {"both", "start", "stop", "none"}

\* The objects of the graph in hand.
Nodes == {objects[k] : k \in 1..Len(objects)}

\* Return values: nil, a cycleError carrying its path, a node's own error.
Nil == [type |-> "nil"]
NotReturned == [type |-> "none"]
cycleError(p) == [type |-> "cycle", path |-> p]
nodeError(n) == [type |-> "node", node |-> n]

\* Mutant of isStarter: every eligible object is taken for a Starter.
isStarterAny(n) == kind[n] # "none"

\* o.Value.(Starter), o.Value.(Stopper)
isStarter(n) == kind[n] \in {"both", "start"}
isStopper(n) == kind[n] \in {"both", "stop"}

\* Mutant of isEligible: only an object with both methods is eligible.
isEligibleBoth(n) == isStarter(n) /\ isStopper(n)

isEligible(n) == isStarter(n) \/ isStopper(n)

\* All sequences that list every element of the set S once.
RECURSIVE Perms(_)
Perms(S) ==
  IF S = {} THEN {<<>>}
  ELSE UNION {{<<x>> \o p : p \in Perms(S \ {x})} : x \in S}

\* One iteration order for the range over each object's Fields map: ord[n] is
\* the order in which the fields of object n are visited.
RECURSIVE ordersUpTo(_)
ordersUpTo(k) ==
  IF k = 0 THEN {<<>>}
  ELSE {Append(f, p) : f \in ordersUpTo(k - 1), p \in Perms(Fields[k])}

FieldOrders == ordersUpTo(Len(objects))

\* allPaths(from, to, seen) with the range over from.Fields spelled out as
\* rangeFields; both return the paths found, the seen map as left behind and
\* the objects whose Fields were ranged over (line 176), in order.
RECURSIVE allPaths(_, _, _, _), rangeFields(_, _, _, _, _)
RECURSIVE rangeFieldsApart(_, _, _, _, _)
allPaths(from, to, seen, ord) ==
  IF from # to /\ from \in seen
  THEN [paths |-> <<>>, seen |-> seen, ranged |-> <<>>]
  ELSE rangeFields(from, to, ord[from],
                   [paths |-> <<>>,
                    seen |-> IF from # to THEN seen \cup {from} ELSE seen,
                    ranged |-> <<from>>],
                   ord)

\* Mutant of rangeFields: what a recursive call marked as seen is not kept
\* for the fields that follow.
rangeFieldsApart(from, to, fs, acc, ord) ==
  IF fs = <<>> THEN acc
  ELSE LET value == Head(fs)
           immediate == <<[Field |-> value, Object |-> from]>>
           next ==
             IF value = to
             THEN [acc EXCEPT !.paths = Append(@, immediate)]
             ELSE LET r == allPaths(value, to, acc.seen, ord)
                  IN [paths |-> acc.paths \o
                                 [j \in 1..Len(r.paths) |-> immediate \o r.paths[j]],
                      seen |-> acc.seen,
                      ranged |-> acc.ranged \o r.ranged]
       IN rangeFieldsApart(from, to, Tail(fs), next, ord)

rangeFields(from, to, fs, acc, ord) ==
  IF fs = <<>> THEN acc
  ELSE LET value == Head(fs)
           immediate == <<[Field |-> value, Object |-> from]>>
           next ==
             IF value = to
             THEN [acc EXCEPT !.paths = Append(@, immediate)]
             ELSE LET r == allPaths(value, to, acc.seen, ord)
                  IN [paths |-> acc.paths \o
                                 [j \in 1..Len(r.paths) |-> immediate \o r.paths[j]],
                      seen |-> r.seen,
                      ranged |-> acc.ranged \o r.ranged]
       IN rangeFields(from, to, Tail(fs), next, ord)

\* Mutant of eligibleOnPath: every object on the path is counted.
eligibleOnPathAll(p) == Len(p)

\* The number of eligible objects on a path (lines 106-111).
eligibleOnPath(p) == Cardinality({j \in 1..Len(p) : isEligible(p[j].Object)})

\* Mutant of isFatal: the direct cycle of an object to itself is not singled out.
isFatalNoSelf(p) == eligibleOnPath(p) > 1

\* Mutant of isFatal: every path back to the object is taken for a fatal cycle.
isFatalAnyCycle(p) == Len(p) >= 1

\* Lines 99-115: whether a path back to the object is a fatal cycle.
isFatal(p) == Len(p) = 1 \/ eligibleOnPath(p) > 1

\* Lines 97-116: the first fatal path in the order found, <<>> if none.
RECURSIVE firstFatal(_)
firstFatal(paths) ==
  IF paths = <<>> THEN <<>>
  ELSE IF isFatal(Head(paths)) THEN Head(paths)
  ELSE firstFatal(Tail(paths))

\* Mutant of startStopDeps: every object of deps is counted.
startStopDepsAll(deps) == Cardinality(deps)

\* Lines 118-123: the number of eligible objects among deps.
startStopDeps(deps) == Cardinality({d \in deps : isEligible(d)})

\* Lines 127-136: the levels of the map, by descending key.
RECURSIVE levelsFrom(_, _)
levelsFrom(m, k) ==
  LET here == IF m[k] # <<>> THEN <<m[k]>> ELSE <<>>
  IN IF k = 0 THEN here ELSE here \o levelsFrom(m, k - 1)

\* Mutant of sortedLevels: the keys are sorted ascending.
sortedLevelsAscending(m) ==
  LET l == levelsFrom(m, Len(objects))
  IN [k \in 1..Len(l) |-> l[Len(l) + 1 - k]]

sortedLevels(m) == levelsFrom(m, Len(objects))

EmptyMap == [k \in 0..Len(objects) |-> <<>>]

----------------------------------------------------------------------------
\* The graphs: every object has at most MaxFields fields.
FieldSets(N) == {S \in SUBSET N : Cardinality(S) <= MaxFields}

\* No repetition of the calls is under way.
TwinOff == [phase |-> "off", ords |-> <<>>, oks |-> <<>>, first |-> <<>>]

\* What a call of allPaths by levels did: the deps it left, the objects whose
\* Fields it ranged over and how many ranges it executed.
walked(o, r) ==
  [root |-> o, deps |-> r.seen,
   ranged |-> {r.ranged[j] : j \in 1..Len(r.ranged)}, ranges |-> Len(r.ranged)]

NoWalk == [root |-> 0, deps |-> {}, ranged |-> {}, ranges |-> 0]

Idle ==
  /\ op = "none" /\ pc = "idle" /\ i = 0
  /\ levelsMap = EmptyMap /\ lvls = <<>> /\ todo = <<>>
  /\ startCalls = <<>> /\ stopCalls = <<>>
  /\ startRes = NotReturned /\ stopRes = NotReturned
  /\ events = <<>> /\ trace = <<>> /\ walk = NoWalk

\* Every graph over three objects, every object of any kind.
Init ==
  /\ objects = <<1, 2, 3>>
  /\ Fields \in [Nodes3 -> FieldSets(Nodes3)]
  /\ kind \in [Nodes3 -> Kinds]
  /\ log \in BOOLEAN
  /\ twin = TwinOff
  /\ Idle

\* Graphs over four objects: a Starter and Stopper, a second eligible object
\* of any kind and two plain objects.
InitFour ==
  /\ objects = <<1, 2, 3, 4>>
  /\ Fields \in [Nodes4 -> FieldSets(Nodes4)]
  /\ \E k \in Kinds \ {"none"} :
       kind = [n \in Nodes4 |-> IF n = 1 THEN "both" ELSE IF n = 2 THEN k ELSE "none"]
  /\ log = FALSE
  /\ twin = TwinOff
  /\ Idle

\* The diamond of TestDiamond under every placement of its four objects in
\* the slice: a top with two fields, two sides pointing to the bottom.
InitDiamond ==
  /\ objects = <<1, 2, 3, 4>>
  /\ \E a, c \in Nodes4 :
       /\ a # c
       /\ Fields = [n \in Nodes4 |-> IF n = a THEN Nodes4 \ {a, c}
                                     ELSE IF n = c THEN {} ELSE {c}]
  /\ kind \in [Nodes4 -> Kinds]
  /\ log \in BOOLEAN
  /\ twin = TwinOff
  /\ Idle

\* Every graph over three objects, the first two of any kind and the third
\* plain, Start and Stop called with a Logger first; the inputs of this pair
\* of calls are written down.
InitTwin ==
  /\ objects = <<1, 2, 3>>
  /\ Fields \in [Nodes3 -> FieldSets(Nodes3)]
  /\ kind \in {k \in [Nodes3 -> Kinds] : k[3] = "none"}
  /\ log = TRUE
  /\ twin = [TwinOff EXCEPT !.phase = "first"]
  /\ Idle

----------------------------------------------------------------------------
\* The inputs the environment chooses (the order of a range over Fields, the
\* outcome of a Start or Stop method) are written down during a first pair of
\* calls and chosen alike when the pair is repeated.
sameOrd(ord) == (twin.phase = "replay" /\ twin.ords # <<>>) => ord = Head(twin.ords)
sameOk(ok) == (twin.phase = "replay" /\ twin.oks # <<>>) => ok = Head(twin.oks)
ordUsed(ord) ==
  IF twin.phase = "first" THEN [twin EXCEPT !.ords = Append(@, ord)]
  ELSE IF twin.phase = "replay" /\ twin.ords # <<>> THEN [twin EXCEPT !.ords = Tail(@)]
  ELSE twin
okUsed(ok) ==
  IF twin.phase = "first" THEN [twin EXCEPT !.oks = Append(@, ok)]
  ELSE IF twin.phase = "replay" /\ twin.oks # <<>> THEN [twin EXCEPT !.oks = Tail(@)]
  ELSE twin

\* The entries of trace.
logged(lv, o, n) == [kind |-> lv, op |-> o, node |-> n, ok |-> TRUE]
called(o, n, ok) == [kind |-> "call", op |-> o, node |-> n, ok |-> ok]

\* Start(ctx, objects, log) is called: line 35 enters levels.
CallStart ==
  /\ pc = "idle" /\ op = "none"
  /\ op' = "Start" /\ pc' = "levels" /\ i' = 1
  /\ levelsMap' = EmptyMap
  /\ UNCHANGED <<graph, trace, twin, walk, lvls, todo, startCalls, stopCalls, startRes, stopRes, events>>

\* Stop(ctx, objects, log) is called once Start has returned: line 61.
CallStop ==
  /\ pc = "done" /\ op = "Start"
  /\ op' = "Stop" /\ pc' = "levels" /\ i' = 1
  /\ levelsMap' = EmptyMap
  /\ UNCHANGED <<graph, trace, twin, walk, lvls, todo, startCalls, stopCalls, startRes, stopRes, events>>

\* The call in progress returns r.
Return(r) ==
  /\ pc' = "done"
  /\ IF op = "Start"
     THEN startRes' = r /\ UNCHANGED stopRes
     ELSE stopRes' = r /\ UNCHANGED startRes

\* Lines 90-93: an object that is not eligible is skipped.
LevelsSkip ==
  /\ pc = "levels" /\ i <= Len(objects)
  /\ ~isEligible(objects[i])
  /\ i' = i + 1
  /\ UNCHANGED <<graph, trace, twin, walk, op, pc, levelsMap, lvls, todo, startCalls, stopCalls,
                 startRes, stopRes, events>>

\* Mutant of LevelsObject: a fatal cycle is recorded as the result but the
\* object is passed over and the call carries on.
LevelsObjectLate ==
  /\ pc = "levels" /\ i <= Len(objects)
  /\ isEligible(objects[i])
  /\ \E ord \in FieldOrders :
       /\ sameOrd(ord) /\ twin' = ordUsed(ord)
       /\ \E r \in {allPaths(objects[i], objects[i], {}, ord)} :
          LET o == objects[i]
              p == firstFatal(r.paths)
              n == startStopDeps(r.seen)
          IN /\ walk' = walked(o, r)
             /\ IF p # <<>>
                THEN /\ IF op = "Start"
                        THEN startRes' = cycleError(p) /\ UNCHANGED stopRes
                        ELSE stopRes' = cycleError(p) /\ UNCHANGED startRes
                     /\ UNCHANGED <<pc, levelsMap>>
                ELSE /\ levelsMap' = [levelsMap EXCEPT ![n] = Append(@, o)]
                     /\ UNCHANGED <<pc, startRes, stopRes>>
  /\ i' = i + 1
  /\ UNCHANGED <<graph, trace, op, lvls, todo, startCalls, stopCalls, events>>

\* Lines 95-124 for an eligible object: with a fatal cycle among the paths
\* found, levels returns the cycleError and Start or Stop returns it at once;
\* otherwise the object is appended to the level of its startStopDeps.
LevelsObject ==
  /\ pc = "levels" /\ i <= Len(objects)
  /\ isEligible(objects[i])
  /\ \E ord \in FieldOrders :
       /\ sameOrd(ord) /\ twin' = ordUsed(ord)
       /\ \E r \in {allPaths(objects[i], objects[i], {}, ord)} :
          LET o == objects[i]
              p == firstFatal(r.paths)
              n == startStopDeps(r.seen)
          IN /\ walk' = walked(o, r)
             /\ IF p # <<>>
                THEN /\ Return(cycleError(p))
                     /\ UNCHANGED <<i, levelsMap>>
                ELSE /\ levelsMap' = [levelsMap EXCEPT ![n] = Append(@, o)]
                     /\ i' = i + 1
                     /\ UNCHANGED <<pc, startRes, stopRes>>
  /\ UNCHANGED <<graph, trace, op, lvls, todo, startCalls, stopCalls, events>>

\* Mutant of stopOrder: Stop walks every level backwards as well.
RECURSIVE stopOrderMirror(_)
stopOrderMirror(ls) ==
  IF ls = <<>> THEN <<>>
  ELSE [k \in 1..Len(Head(ls)) |-> Head(ls)[Len(Head(ls)) + 1 - k]] \o
       stopOrderMirror(Tail(ls))

\* The objects of the levels in the order the loops of Stop visit them
\* (lines 66-67): first level first, each level in slice order.
RECURSIVE stopOrder(_)
stopOrder(ls) == IF ls = <<>> THEN <<>> ELSE Head(ls) \o stopOrder(Tail(ls))

\* Mutant of startOrder: Start walks the levels from the first, as Stop does.
startOrderForward(ls) == stopOrder(ls)

\* The order the loops of Start visit them (lines 40-42): last level first,
\* each level in slice order.
RECURSIVE startOrder(_)
startOrder(ls) ==
  IF ls = <<>> THEN <<>> ELSE startOrder(Tail(ls)) \o Head(ls)

\* Lines 127-137: the loop over objects is over, levels returns the levels
\* by descending key and the loops of Start or Stop begin.
LevelsReturn ==
  /\ pc = "levels" /\ i > Len(objects)
  /\ lvls' = sortedLevels(levelsMap)
  /\ pc' = "loop"
  /\ todo' = IF op = "Start" THEN startOrder(lvls') ELSE stopOrder(lvls')
  /\ UNCHANGED <<graph, trace, twin, walk, op, i, levelsMap, startCalls, stopCalls, startRes, stopRes, events>>

\* log.Debugf / log.Errorf: nothing is emitted without a Logger.
emit(e) == IF log THEN Append(events, e) ELSE events

\* The trace after a Logger message: nothing is noted without a Logger.
noted(e) == IF log THEN Append(trace, e) ELSE trace

\* Line 43: an object that is no Starter is passed over.
StartSkip ==
  /\ pc = "loop" /\ op = "Start" /\ todo # <<>>
  /\ ~isStarter(Head(todo))
  /\ todo' = Tail(todo)
  /\ UNCHANGED <<graph, trace, twin, walk, op, pc, i, levelsMap, lvls, startCalls, stopCalls,
                 startRes, stopRes, events>>

\* Mutant of StartObject: a failing Start is noted and the loop goes on.
StartObjectGoOn ==
  /\ pc = "loop" /\ op = "Start" /\ todo # <<>>
  /\ isStarter(Head(todo))
  /\ events' = emit([level |-> "debug", what |-> "starting", node |-> Head(todo)])
  /\ \E ok \in BOOLEAN :
       /\ sameOk(ok) /\ twin' = okUsed(ok)
       /\ startCalls' = Append(startCalls, [node |-> Head(todo), ok |-> ok])
       /\ trace' = noted(logged("debug", "Start", Head(todo))) \o
                     <<called("Start", Head(todo), ok)>>
  /\ todo' = Tail(todo)
  /\ UNCHANGED <<graph, walk, op, pc, i, levelsMap, lvls, stopCalls, startRes, stopRes>>

\* Mutant of StartObject: the Starter is started first and logged afterwards.
StartObjectCallFirst ==
  /\ pc = "loop" /\ op = "Start" /\ todo # <<>>
  /\ isStarter(Head(todo))
  /\ events' = emit([level |-> "debug", what |-> "starting", node |-> Head(todo)])
  /\ \E ok \in BOOLEAN :
       /\ sameOk(ok) /\ twin' = okUsed(ok)
       /\ startCalls' = Append(startCalls, [node |-> Head(todo), ok |-> ok])
       /\ trace' = Append(trace, called("Start", Head(todo), ok)) \o
                     (IF log THEN <<logged("debug", "Start", Head(todo))>> ELSE <<>>)
       /\ IF ok
          THEN todo' = Tail(todo) /\ UNCHANGED <<pc, startRes, stopRes>>
          ELSE Return(nodeError(Head(todo))) /\ UNCHANGED todo
  /\ UNCHANGED <<graph, walk, op, i, levelsMap, lvls, stopCalls>>

\* Lines 43-50: a Starter is logged and started; if its Start fails, Start
\* returns that error at once.
StartObject ==
  /\ pc = "loop" /\ op = "Start" /\ todo # <<>>
  /\ isStarter(Head(todo))
  /\ events' = emit([level |-> "debug", what |-> "starting", node |-> Head(todo)])
  /\ \E ok \in BOOLEAN :
       /\ sameOk(ok) /\ twin' = okUsed(ok)
       /\ startCalls' = Append(startCalls, [node |-> Head(todo), ok |-> ok])
       /\ trace' = noted(logged("debug", "Start", Head(todo))) \o
                     <<called("Start", Head(todo), ok)>>
       /\ IF ok
          THEN todo' = Tail(todo) /\ UNCHANGED <<pc, startRes, stopRes>>
          ELSE Return(nodeError(Head(todo))) /\ UNCHANGED todo
  /\ UNCHANGED <<graph, walk, op, i, levelsMap, lvls, stopCalls>>

\* Line 54: every level has been walked, Start returns nil.
StartReturn ==
  /\ pc = "loop" /\ op = "Start" /\ todo = <<>>
  /\ Return(Nil)
  /\ UNCHANGED <<graph, trace, twin, walk, op, i, levelsMap, lvls, todo, startCalls, stopCalls, events>>

\* Line 68: an object that is no Stopper is passed over.
StopSkip ==
  /\ pc = "loop" /\ op = "Stop" /\ todo # <<>>
  /\ ~isStopper(Head(todo))
  /\ todo' = Tail(todo)
  /\ UNCHANGED <<graph, trace, twin, walk, op, pc, i, levelsMap, lvls, startCalls, stopCalls,
                 startRes, stopRes, events>>

\* Mutant of StopObject: a failing Stop makes Stop return that error at once.
StopObjectFailFast ==
  /\ pc = "loop" /\ op = "Stop" /\ todo # <<>>
  /\ isStopper(Head(todo))
  /\ events' = emit([level |-> "debug", what |-> "stopping", node |-> Head(todo)])
  /\ \E ok \in BOOLEAN :
       /\ sameOk(ok) /\ twin' = okUsed(ok)
       /\ stopCalls' = Append(stopCalls, [node |-> Head(todo), ok |-> ok])
       /\ trace' = noted(logged("debug", "Stop", Head(todo))) \o
                     <<called("Stop", Head(todo), ok)>>
       /\ IF ok
          THEN todo' = Tail(todo) /\ UNCHANGED <<pc, startRes, stopRes>>
          ELSE Return(nodeError(Head(todo))) /\ UNCHANGED todo
  /\ UNCHANGED <<graph, walk, op, i, levelsMap, lvls, startCalls>>

\* Mutant of StopObject: without a Logger a failing Stop is returned.
StopObjectLogOrReturn ==
  /\ pc = "loop" /\ op = "Stop" /\ todo # <<>>
  /\ isStopper(Head(todo))
  /\ \E ok \in BOOLEAN :
       /\ sameOk(ok) /\ twin' = okUsed(ok)
       /\ stopCalls' = Append(stopCalls, [node |-> Head(todo), ok |-> ok])
       /\ events' =
            IF ok
            THEN emit([level |-> "debug", what |-> "stopping", node |-> Head(todo)])
            ELSE IF log
            THEN events \o <<[level |-> "debug", what |-> "stopping", node |-> Head(todo)],
                             [level |-> "error", what |-> "stopping", node |-> Head(todo)]>>
            ELSE events
       /\ trace' = noted(logged("debug", "Stop", Head(todo))) \o
                     <<called("Stop", Head(todo), ok)>> \o
                     (IF ~ok /\ log THEN <<logged("error", "Stop", Head(todo))>> ELSE <<>>)
       /\ IF ok \/ log
          THEN todo' = Tail(todo) /\ UNCHANGED <<pc, startRes, stopRes>>
          ELSE Return(nodeError(Head(todo))) /\ UNCHANGED todo
  /\ UNCHANGED <<graph, walk, op, i, levelsMap, lvls, startCalls>>

\* Lines 68-76: a Stopper is logged and stopped; if its Stop fails the error
\* is logged and the loop goes on.
StopObject ==
  /\ pc = "loop" /\ op = "Stop" /\ todo # <<>>
  /\ isStopper(Head(todo))
  /\ \E ok \in BOOLEAN :
       /\ sameOk(ok) /\ twin' = okUsed(ok)
       /\ stopCalls' = Append(stopCalls, [node |-> Head(todo), ok |-> ok])
       /\ events' =
            IF ok
            THEN emit([level |-> "debug", what |-> "stopping", node |-> Head(todo)])
            ELSE IF log
            THEN events \o <<[level |-> "debug", what |-> "stopping", node |-> Head(todo)],
                             [level |-> "error", what |-> "stopping", node |-> Head(todo)]>>
            ELSE events
       /\ trace' = noted(logged("debug", "Stop", Head(todo))) \o
                     <<called("Stop", Head(todo), ok)>> \o
                     (IF ~ok /\ log THEN <<logged("error", "Stop", Head(todo))>> ELSE <<>>)
  /\ todo' = Tail(todo)
  /\ UNCHANGED <<graph, walk, op, pc, i, levelsMap, lvls, startCalls, startRes, stopRes>>

\* Line 80: every level has been walked, Stop returns nil.
StopReturn ==
  /\ pc = "loop" /\ op = "Stop" /\ todo = <<>>
  /\ Return(Nil)
  /\ UNCHANGED <<graph, trace, twin, walk, op, i, levelsMap, lvls, todo, startCalls, stopCalls, events>>

\* Start and Stop have returned; the same objects are passed to Start and
\* Stop again, this time with a nil Logger. What the first pair of calls did
\* is kept for comparison.
CallAgain ==
  /\ twin.phase = "first" /\ op = "Stop" /\ pc = "done"
  /\ twin' = [twin EXCEPT !.phase = "replay",
                           !.first = [startCalls |-> startCalls, stopCalls |-> stopCalls,
                                      startRes |-> startRes, stopRes |-> stopRes,
                                      events |-> events]]
  /\ log' = FALSE
  /\ op' = "none" /\ pc' = "idle" /\ i' = 0
  /\ levelsMap' = EmptyMap /\ lvls' = <<>> /\ todo' = <<>>
  /\ startCalls' = <<>> /\ stopCalls' = <<>>
  /\ startRes' = NotReturned /\ stopRes' = NotReturned
  /\ events' = <<>> /\ trace' = <<>> /\ walk' = NoWalk
  /\ UNCHANGED <<objects, Fields, kind>>

Next ==
  \/ CallStart
  \/ CallStop
  \/ LevelsSkip
  \/ LevelsObject
  \/ LevelsReturn
  \/ StartSkip
  \/ StartObject
  \/ StartReturn
  \/ StopSkip
  \/ StopObject
  \/ StopReturn

Spec == Init /\ [][Next]_vars

SpecFour == InitFour /\ [][Next]_vars

SpecDiamond == InitDiamond /\ [][Next]_vars

NextTwin == Next \/ CallAgain

SpecTwin == InitTwin /\ [][NextTwin]_vars

----------------------------------------------------------------------------
\* Reference notions the properties are stated with.

\* The capabilities an object exposes.
HasStart(n) == kind[n] \in {"both", "start"}
HasStop(n) == kind[n] \in {"both", "stop"}
Eligible(n) == kind[n] # "none"

\* The objects reachable from n by one or more dependency edges.
RECURSIVE closure(_)
closure(S) ==
  LET T == S \cup UNION {Fields[x] : x \in S}
  IN IF T = S THEN S ELSE closure(T)

Reach(n) == closure(Fields[n])

Acyclic == \A n \in Nodes : n \notin Reach(n)

\* The simple cycles of the graph, each as the sequence of its objects.
Cycles ==
  {c \in UNION {Perms(S) : S \in SUBSET Nodes \ {{}}} :
     \A k \in 1..Len(c) : c[(k % Len(c)) + 1] \in Fields[c[k]]}

\* Some cycle passes through two or more eligible objects.
CycleThroughTwo ==
  \E c \in Cycles : Cardinality({k \in 1..Len(c) : Eligible(c[k])}) >= 2

\* Some eligible object has a field pointing to itself.
EligibleSelfLoop == \E n \in Nodes : Eligible(n) /\ n \in Fields[n]

Occ(calls, n) == {k \in 1..Len(calls) : calls[k].node = n}
AllOk(calls) == \A k \in 1..Len(calls) : calls[k].ok
Before(calls, x, y) ==
  /\ Occ(calls, x) # {} /\ Occ(calls, y) # {}
  /\ \A kx \in Occ(calls, x), ky \in Occ(calls, y) : kx < ky

StartOk == startRes = Nil /\ AllOk(startCalls)
StopOk == stopRes = Nil /\ AllOk(stopCalls)

\* Pairs (a, b) of distinct objects with both capabilities, b reachable from a.
DependentPairs ==
  {ab \in Nodes \X Nodes :
     /\ ab[1] # ab[2] /\ kind[ab[1]] = "both" /\ kind[ab[2]] = "both"
     /\ ab[2] \in Reach(ab[1])}

\* Dependencies are started first and stopped last.
Ordered ==
  /\ StartOk => \A ab \in DependentPairs : Before(startCalls, ab[2], ab[1])
  /\ StopOk => \A ab \in DependentPairs : Before(stopCalls, ab[1], ab[2])

----------------------------------------------------------------------------
\* C1: on an acyclic graph where every call succeeds, for all distinct
\* objects A and B with both capabilities and B reachable from A, Start calls
\* B's Start before A's and Stop calls A's Stop before B's.
C1_AcyclicOrder == Acyclic => Ordered

\* An acyclic graph whose Stop has returned, where an object reaches another
\* one only through an object without capabilities.
C1_Witness ==
  /\ Acyclic /\ StartOk /\ StopOk
  /\ \E ab \in DependentPairs :
       /\ ab[2] \notin Fields[ab[1]]
       /\ \E x \in Fields[ab[1]] : kind[x] = "none" /\ ab[2] \in Fields[x]

\* C2: a graph with a cycle through two or more eligible objects makes both
\* Start and Stop return a cycle error, whatever the iteration orders.
C2_CycleAlwaysReported ==
  CycleThroughTwo =>
    /\ startRes # NotReturned => startRes.type = "cycle"
    /\ stopRes # NotReturned => stopRes.type = "cycle"

\* C3: whenever no cycle error is returned and every call succeeds, on any
\* graph, dependencies are started first and stopped last.
C3_OrderWithoutCycleError == Ordered

\* C4: a call that returns a cycle error has invoked no object, and no
\* object is invoked while levels is still looking for cycles.
C4_NoCallBeforeVerdict ==
  /\ startRes.type = "cycle" => startCalls = <<>>
  /\ stopRes.type = "cycle" => stopCalls = <<>>
  /\ (pc = "levels" /\ op = "Start") => startCalls = <<>>
  /\ (pc = "levels" /\ op = "Stop") => stopCalls = <<>>

\* Both calls returned a cycle error found after an eligible object without
\* fields, which Start would have started first, had been analysed.
C4_Witness ==
  /\ startRes.type = "cycle" /\ stopRes.type = "cycle"
  /\ kind[objects[1]] = "both" /\ Fields[objects[1]] = {}
  /\ startCalls = <<>> /\ stopCalls = <<>>

\* C5 as claimed: an eligible object with a field to itself makes Start and
\* Stop return the self-loop error (a path of one step), whatever else the
\* graph contains.
C5_AlwaysSelfLoopError ==
  EligibleSelfLoop =>
    /\ startRes # NotReturned => (startRes.type = "cycle" /\ Len(startRes.path) = 1)
    /\ stopRes # NotReturned => (stopRes.type = "cycle" /\ Len(stopRes.path) = 1)

\* C5 amended: an eligible object with a field to itself makes Start and Stop
\* return a cycle error; it is the self-loop error whenever no cycle passes
\* through two or more eligible objects.
C5_SelfLoopRejected ==
  EligibleSelfLoop =>
    /\ startRes # NotReturned =>
         /\ startRes.type = "cycle"
         /\ ~CycleThroughTwo => Len(startRes.path) = 1
    /\ stopRes # NotReturned =>
         /\ stopRes.type = "cycle"
         /\ ~CycleThroughTwo => Len(stopRes.path) = 1

\* Stop returned the self-loop error of an object that also lies on a
\* longer cycle through a plain object.
C5_Witness ==
  /\ stopRes.type = "cycle" /\ Len(stopRes.path) = 1
  /\ startRes.type = "cycle" /\ Len(startRes.path) = 1
  /\ \E n \in Nodes : \E x \in Fields[n] :
       /\ Eligible(n) /\ n \in Fields[n]
       /\ x # n /\ kind[x] = "none" /\ n \in Fields[x]

\* C6: if every cycle passes through at most one eligible object and no
\* eligible object points to itself, no cycle error is returned and, all
\* calls succeeding, every Starter is started and every Stopper stopped.
C6_BenignCyclesAccepted ==
  \/ /\ startRes.type # "cycle" /\ stopRes.type # "cycle"
     /\ StartOk => \A n \in Nodes : HasStart(n) => Occ(startCalls, n) # {}
     /\ StopOk => \A n \in Nodes : HasStop(n) => Occ(stopCalls, n) # {}
  \/ EligibleSelfLoop
  \/ CycleThroughTwo

\* Start and Stop succeeded on a graph with a cycle of three objects of
\* which one is eligible.
C6_Witness ==
  /\ StartOk /\ StopOk
  /\ \E c \in Cycles :
       /\ Len(c) = 3
       /\ Cardinality({k \in 1..Len(c) : Eligible(c[k])}) = 1
       /\ \A k \in 1..Len(c) : Occ(startCalls, c[k]) # {} <=> HasStart(c[k])

\* C7: when an object's Start fails, Start returns that object's error, the
\* failing call is the last Start it makes, and it calls no Stop.
C7_StartFailFast ==
  /\ \A k \in 1..Len(startCalls) :
       ~startCalls[k].ok =>
         /\ k = Len(startCalls)
         /\ startRes = nodeError(startCalls[k].node)
  /\ startRes.type = "node" =>
       /\ startCalls # <<>>
       /\ ~startCalls[Len(startCalls)].ok
  /\ op = "Start" => stopCalls = <<>>

\* Start returned the error of the second object it started and left a
\* third Starter unstarted.
C7_Witness ==
  /\ op = "Start" /\ pc = "done" /\ startRes.type = "node"
  /\ Len(startCalls) = 2 /\ startCalls[1].ok
  /\ \E n \in Nodes : HasStart(n) /\ Occ(startCalls, n) = {}

\* C8: when Stop returns without a cycle error it returns nil and has called
\* the Stop of every Stopper exactly once, whichever of them failed.
C8_StopCallsEveryStopper ==
  /\ stopRes.type # "node"
  /\ stopRes = Nil =>
       /\ \A n \in Nodes : HasStop(n) => Cardinality(Occ(stopCalls, n)) = 1
       /\ \A k \in 1..Len(stopCalls) : HasStop(stopCalls[k].node)

\* Stop returned nil after the first of three Stop calls failed.
C8_Witness ==
  /\ stopRes = Nil /\ Len(stopCalls) = 3
  /\ ~stopCalls[1].ok /\ stopCalls[2].ok /\ ~stopCalls[3].ok

\* C9 as claimed: on an acyclic graph where every call succeeds, every
\* eligible object is invoked exactly once by Start and exactly once by Stop,
\* and no other object is invoked.
C9_EveryEligibleBothWays ==
  (Acyclic /\ StartOk /\ StopOk) =>
    \A n \in Nodes :
      /\ Cardinality(Occ(startCalls, n)) = (IF Eligible(n) THEN 1 ELSE 0)
      /\ Cardinality(Occ(stopCalls, n)) = (IF Eligible(n) THEN 1 ELSE 0)

\* C9 amended: on an acyclic graph where every call succeeds, Start invokes
\* every Starter exactly once and nothing else, and Stop invokes every
\* Stopper exactly once and nothing else.
C9_EveryCapabilityOnce ==
  Acyclic =>
    /\ StartOk =>
         \A n \in Nodes :
           Cardinality(Occ(startCalls, n)) = (IF HasStart(n) THEN 1 ELSE 0)
    /\ StopOk =>
         \A n \in Nodes :
           Cardinality(Occ(stopCalls, n)) = (IF HasStop(n) THEN 1 ELSE 0)

\* Start and Stop succeeded on an acyclic graph with a start-only object, a
\* stop-only object and a plain object between them.
C9_Witness ==
  /\ Acyclic /\ StartOk /\ StopOk
  /\ \E a, x, b \in Nodes :
       /\ kind[a] = "start" /\ kind[x] = "none" /\ kind[b] = "stop"
       /\ x \in Fields[a] /\ b \in Fields[x]
       /\ Occ(startCalls, a) # {} /\ Occ(stopCalls, b) # {}

\* C10: two computations of levels on the same graph reach the same verdict,
\* so Start and Stop agree on whether the graph has a fatal cycle.
C10_SameVerdict ==
  (startRes # NotReturned /\ stopRes # NotReturned) =>
    (startRes.type = "cycle" <=> stopRes.type = "cycle")

\* The objects invoked, in order.
nodesOf(calls) == [k \in 1..Len(calls) |-> calls[k].node]
Reversed(q) == [k \in 1..Len(q) |-> q[Len(q) + 1 - k]]

\* The diamond A -> B, A -> D, B -> C, D -> C: its top A, its bottom C and
\* its sides B and D in the order of the objects slice.
IsDiamond ==
  \E a, c \in Nodes :
    /\ a # c /\ Cardinality(Nodes) = 4
    /\ Fields = [n \in Nodes |-> IF n = a THEN Nodes \ {a, c}
                                 ELSE IF n = c THEN {} ELSE {c}]
DiamondA == CHOOSE n \in Nodes : Cardinality(Fields[n]) = 2
DiamondC == CHOOSE n \in Nodes : Fields[n] = {}
DiamondSides ==
  LET b == CHOOSE n \in Fields[DiamondA] : \A m \in Fields[DiamondA] : n <= m
      d == CHOOSE n \in Fields[DiamondA] : n # b
  IN <<b, d>>

\* C11 as claimed: in the diamond with every call succeeding, Start invokes C,
\* then B and D in either order, then A, and the sequence of Stop is the
\* exact reverse of the sequence of Start.
C11_StopExactReverse ==
  (IsDiamond /\ (\A n \in Nodes : kind[n] = "both") /\ StartOk /\ StopOk) =>
    /\ nodesOf(startCalls) \in
         {<<DiamondC>> \o q \o <<DiamondA>> : q \in Perms(Fields[DiamondA])}
    /\ nodesOf(stopCalls) = Reversed(nodesOf(startCalls))

\* C11 amended: in the diamond with four eligible objects and every call
\* succeeding, Start visits C, then B and D, then A and Stop visits A, then B
\* and D, then C, each invoking the objects that have its capability; B and
\* D come in the order of the objects slice in both.
C11_DiamondLevelReverse ==
  (IsDiamond /\ (\A n \in Nodes : Eligible(n))) =>
    /\ StartOk => nodesOf(startCalls) =
         SelectSeq(<<DiamondC>> \o DiamondSides \o <<DiamondA>>, HasStart)
    /\ StopOk => nodesOf(stopCalls) =
         SelectSeq(<<DiamondA>> \o DiamondSides \o <<DiamondC>>, HasStop)

\* Start and Stop succeeded on a diamond of four Starters and Stoppers.
C11_Witness ==
  /\ IsDiamond /\ (\A n \in Nodes : kind[n] = "both") /\ StartOk /\ StopOk
  /\ Len(startCalls) = 4 /\ Len(stopCalls) = 4
  /\ startCalls[2].node = stopCalls[2].node

\* The reference count of an object: the eligible objects other than itself
\* that it reaches by one or more edges.
EligibleDeps(o) == Cardinality({d \in Reach(o) \ {o} : Eligible(d)})

\* levels has returned its levels: no cycle error came back.
Levelled ==
  \/ pc = "loop"
  \/ pc = "done" /\ (IF op = "Start" THEN startRes ELSE stopRes).type # "cycle"

\* C13: when no cycle error is returned, the key under which levels files an
\* eligible object is its reference count, whatever the iteration order:
\* objects reached along converging paths are all counted and the object
\* never counts itself, even on a benign cycle.
C13_CountIsEligibleReach ==
  Levelled =>
    \A k \in 0..Len(objects) : \A j \in 1..Len(levelsMap[k]) :
      /\ Eligible(levelsMap[k][j])
      /\ k = EligibleDeps(levelsMap[k][j])

\* An object on a benign cycle whose two fields converge on an eligible
\* object has been filed under the count 1.
C13_Witness ==
  /\ pc = "loop"
  /\ \E o, x, d \in Nodes :
       /\ Cardinality({o, x, d}) = 3
       /\ Fields[o] = {x, d} /\ Fields[x] = {o, d}
       /\ Eligible(d) /\ ~Eligible(x)
       /\ \E j \in 1..Len(levelsMap[1]) : levelsMap[1][j] = o

\* The positions of the levels an object occupies.
Places(n) ==
  {<<k, j>> \in (1..Len(lvls)) \X (1..Len(objects)) :
     j <= Len(lvls[k]) /\ lvls[k][j] = n}

\* C14: when no cycle error is returned, the levels partition the eligible
\* objects: every eligible object is in exactly one level, once, no other
\* object is in a level, no level is empty, the objects of a level have the
\* same reference count, and the counts of successive levels strictly
\* decrease.
C14_LevelsPartition ==
  Levelled =>
    /\ \A n \in Nodes : Cardinality(Places(n)) = (IF Eligible(n) THEN 1 ELSE 0)
    /\ \A k \in 1..Len(lvls) : lvls[k] # <<>>
    /\ \A k \in 1..Len(lvls) : \A j \in 1..Len(lvls[k]) :
         /\ lvls[k][j] \in Nodes
         /\ EligibleDeps(lvls[k][j]) = EligibleDeps(lvls[k][1])
    /\ \A k \in 1..(Len(lvls) - 1) :
         EligibleDeps(lvls[k][1]) > EligibleDeps(lvls[k + 1][1])

\* Two levels, one of them with two objects (a fan).
C14_Witness ==
  /\ pc = "loop"
  /\ Len(lvls) = 2
  /\ \E k \in 1..2 : Len(lvls[k]) = 2

\* The result of the operation under way or just over.
Result == IF op = "Start" THEN startRes ELSE stopRes

\* p is a simple cycle of the graph from an eligible object: every step's
\* field belongs to its object and leads to the next step's object, the last
\* leads back to the first, and no object occurs twice.
GenuineCycle(p) ==
  /\ Len(p) >= 1
  /\ Eligible(p[1].Object)
  /\ \A j \in 1..Len(p) :
       /\ p[j].Object \in Nodes
       /\ p[j].Field \in Fields[p[j].Object]
       /\ p[j].Field = (IF j < Len(p) THEN p[j + 1].Object ELSE p[1].Object)
  /\ \A j, k \in 1..Len(p) : p[j].Object = p[k].Object => j = k

EligibleOn(p) == {j \in 1..Len(p) : Eligible(p[j].Object)}

\* C15 as claimed: the path of a cycle error is a genuine simple cycle from
\* an eligible object, of length 1 exactly when its first object has an edge
\* to itself, and with at least two eligible objects otherwise.
C15_LengthOneIffSelfEdge ==
  Result.type = "cycle" =>
    /\ GenuineCycle(Result.path)
    /\ IF Result.path[1].Object \in Fields[Result.path[1].Object]
       THEN Len(Result.path) = 1
       ELSE Cardinality(EligibleOn(Result.path)) >= 2

\* C15 amended: the path of a cycle error is a genuine simple cycle from an
\* eligible object; a path of length 1 is the edge of its object to itself,
\* and a longer path holds at least two eligible objects, whether or not its
\* first object also has an edge to itself.
C15_GenuineFatalCycle ==
  Result.type = "cycle" =>
    /\ GenuineCycle(Result.path)
    /\ Len(Result.path) = 1 =>
         Result.path[1].Object \in Fields[Result.path[1].Object]
    /\ Len(Result.path) > 1 => Cardinality(EligibleOn(Result.path)) >= 2

\* A cycle error of two steps whose first object also has an edge to itself.
C15_Witness ==
  /\ pc = "done" /\ Result.type = "cycle"
  /\ Len(Result.path) = 2
  /\ Result.path[1].Object \in Fields[Result.path[1].Object]

\* The invocations of trace, in order, as startCalls and stopCalls hold them.
RECURSIVE callsOf(_)
callsOf(t) ==
  IF t = <<>> THEN <<>>
  ELSE IF Head(t).kind = "call"
       THEN <<[node |-> Head(t).node, ok |-> Head(t).ok]>> \o callsOf(Tail(t))
       ELSE callsOf(Tail(t))

\* C17: with a Logger, every invocation comes right after exactly one debug
\* message naming its object; every failing Stop is followed at once by
\* exactly one error message, before the debug message of the next object;
\* Start logs no error; and no message names an object that lacks the
\* capability of the operation.
C17_LogAroundCalls ==
  log =>
    /\ callsOf(trace) = startCalls \o stopCalls
    /\ \A k \in 1..Len(trace) :
         LET e == trace[k] IN
         /\ (IF e.op = "Start" THEN HasStart(e.node) ELSE HasStop(e.node))
         /\ e.kind = "call" =>
              /\ k > 1 /\ trace[k - 1] = logged("debug", e.op, e.node)
              /\ k > 2 => trace[k - 2].kind # "debug"
              /\ (e.op = "Stop" /\ ~e.ok) =>
                   /\ k < Len(trace) /\ trace[k + 1] = logged("error", "Stop", e.node)
                   /\ k + 1 < Len(trace) => trace[k + 2].kind = "debug"
              /\ (e.op = "Start" \/ e.ok) =>
                   (k < Len(trace) => trace[k + 1].kind = "debug")
         /\ e.kind = "debug" =>
              k < Len(trace) /\ trace[k + 1].kind = "call"
         /\ e.kind = "error" =>
              /\ e.op = "Stop"
              /\ k > 1 /\ trace[k - 1] = called("Stop", e.node, FALSE)

\* With a Logger, a Stop failed and the Stop of another object followed after
\* a Start.
C17_Witness ==
  /\ log /\ startCalls # <<>>
  /\ \E k \in 1..Len(trace) :
       /\ trace[k] = called("Stop", trace[k].node, FALSE)
       /\ k + 3 <= Len(trace)
       /\ trace[k + 3].kind = "call" /\ trace[k + 3].node # trace[k].node

\* An object with exactly one of the two methods.
HalfOnly(n) == kind[n] \in {"start", "stop"}

\* C18: an object with only one of the two methods takes part in the
\* ordering like any eligible object: it is in a level, it adds one to the
\* count of every object filed that reaches it, and two eligible objects that
\* depend on each other directly are a cycle error even when one of them has
\* one method only; but a start-only object is never stopped and a stop-only
\* object never started.
C18_HalfOnlyEligible ==
  /\ Levelled =>
       \A n \in Nodes : HalfOnly(n) => Places(n) # {}
  /\ Levelled =>
       \A k \in 0..Len(objects) : \A j \in 1..Len(levelsMap[k]) :
         LET o == levelsMap[k][j]
         IN k = Cardinality({d \in Reach(o) \ {o} : HalfOnly(d)}) +
                Cardinality({d \in Reach(o) \ {o} : kind[d] = "both"})
  /\ (\E a, b \in Nodes : /\ a # b /\ HalfOnly(a) /\ Eligible(b)
                           /\ b \in Fields[a] /\ a \in Fields[b]) =>
       /\ pc # "loop"
       /\ pc = "done" => Result.type = "cycle"
  /\ \A k \in 1..Len(startCalls) : kind[startCalls[k].node] # "stop"
  /\ \A k \in 1..Len(stopCalls) : kind[stopCalls[k].node] # "start"

\* Start and Stop returned nil on a graph where a start-only object depends
\* on a stop-only object: the first was started only, the second stopped only.
C18_Witness ==
  /\ pc = "done" /\ op = "Stop" /\ startRes = Nil /\ stopRes = Nil
  /\ \E a, b \in Nodes :
       /\ kind[a] = "start" /\ kind[b] = "stop" /\ b \in Fields[a]
       /\ Occ(startCalls, a) # {} /\ Occ(stopCalls, b) # {}
       /\ Occ(startCalls, b) = {} /\ Occ(stopCalls, a) = {}
       /\ \E j \in 1..Len(levelsMap[1]) : levelsMap[1][j] = a

\* Every call of allPaths by levels started from an empty seen map and
\* ranged over the Fields of its root once, of every object the root reaches
\* once, and of no other object.
BoundedWalk ==
  walk.root # 0 =>
    /\ walk.root \in Nodes /\ Eligible(walk.root)
    /\ walk.deps = Reach(walk.root) \ {walk.root}
    /\ walk.ranged = Reach(walk.root) \cup {walk.root}
    /\ walk.ranges = Cardinality(walk.ranged)

\* C16: levels terminates on every graph, cycles among ineligible objects
\* and cycles that miss the object analysed included: analysing one eligible
\* object ranges over the Fields of every object at most once, starting from
\* a fresh seen map, and every step of levels moves its loop on by one
\* object of the slice or returns.
C16_LevelsTerminates ==
  /\ []BoundedWalk
  /\ [](pc = "levels" => i \in 1..(Len(objects) + 1))
  /\ [][pc = "levels" => (pc' # "levels" \/ (pc' = "levels" /\ i' = i + 1))]_vars

\* An eligible object was analysed whose dependencies lie on a cycle of plain
\* objects that does not lead back to it, and levels returned.
C16_Witness ==
  /\ pc = "loop" /\ walk.root # 0
  /\ walk.root \notin Reach(walk.root)
  /\ \E x \in Reach(walk.root) : x \in Reach(x) /\ \A y \in Reach(x) : ~Eligible(y)

IsPrefix(a, b) == Len(a) <= Len(b) /\ a = SubSeq(b, 1, Len(a))

\* C12: for every graph, every iteration order and every outcome of the
\* Start and Stop methods, Start and Stop called with a nil Logger invoke the
\* same methods in the same order and return the same as they did with a
\* Logger, and nothing is logged.
C12_SameWithoutLogger ==
  twin.phase = "replay" =>
    /\ ~log /\ events = <<>>
    /\ IsPrefix(startCalls, twin.first.startCalls)
    /\ IsPrefix(stopCalls, twin.first.stopCalls)
    /\ startRes \in {NotReturned, twin.first.startRes}
    /\ stopRes \in {NotReturned, twin.first.stopRes}
    /\ (pc = "done" /\ op = "Start") =>
         startCalls = twin.first.startCalls /\ startRes = twin.first.startRes
    /\ (pc = "done" /\ op = "Stop") =>
         stopCalls = twin.first.stopCalls /\ stopRes = twin.first.stopRes

\* The calls were repeated without a Logger after a pair of calls in which a
\* Stop failed, an error was logged and another Stop followed.
C12_Witness ==
  /\ twin.phase = "replay" /\ pc = "done" /\ op = "Stop"
  /\ Len(stopCalls) = 2 /\ ~stopCalls[1].ok
  /\ Len(twin.first.events) >= 3
  /\ startCalls # <<>>
====
